---- MODULE Spec2Model ----
(***************************************************************************)
(* NewsAlgo: the article classification functions (reading level,          *)
(* information density, bias, propaganda, topics) of TECHNICAL_SPEC.md and *)
(* the query pattern that filters articles by a user's preferences.        *)
(*                                                                         *)
(* Texts are TLA+ strings, read character by character; scores are exact   *)
(* fractions [num, den] in lowest terms (Python floats in the source).     *)
(***************************************************************************)
EXTENDS Integers, Sequences, FiniteSets, TLC

VARIABLES
    argument,    \* what kind of value a calculator is handed: "str", "None", "bytes"
    text,        \* the text handed to a classification function
    title,       \* the title handed to extract_topics
    called,      \* the function that was applied to (text, title), or "none"
    splitter,    \* how the sentence splitters behaved in that call, or "none"
    path,        \* the path it returned on: "empty", "formula", "default", "fallback",
                 \* "caught" (the except block), "raised" (no return)
    score,       \* the number it returned, a fraction
    topics,      \* the list extract_topics returned
    preferences, \* the user's preference record of the query
    now,         \* the day the query runs on (new Date()), as a day number
    db,          \* the articles collection, in the order the articles were stored
    skip,        \* pagination offset of the query
    limit,       \* pagination size of the query
    query,       \* the query document built from the preferences
    articles,    \* the articles the query pattern holds
    stage,       \* position in the query pattern
    earlier,     \* the day and the result of the invocation before this one, if any
    token,       \* localStorage 'token', NoToken when absent
    user,        \* AuthProvider's user state: a username, or "null"
    authLoading, \* AuthProvider's loading state
    inflight,    \* the requests of AuthProvider that have not been answered
    logins,      \* the calls of login, in the order they were made
    route,       \* the location the router shows
    mounted,     \* the mount effects of the application have run
    stored,      \* the token localStorage held when the page was loaded
    logout,      \* whether logout was called, and how many logins had been made then
    redirect,    \* whether a protected page navigated to /login, and the token then
    homeArticles, \* Home's articles state: what is listed
    homeLoading, \* Home's loading state
    homeMounted, \* Home is mounted (rendered by HomeWithFallback)
    showFallback, \* HomeWithFallback's showFallback state
    fetches,     \* the article requests of Home that have not been answered
    issued,      \* the number of article requests Home has issued
    saving,      \* applyFilters is waiting for savePreferences
    clock,       \* seconds since HomeWithFallback was mounted
    timer        \* the 5-second timer of Home: when it is due and what it captured

classifierVars == <<argument, text, title, called, splitter, path, score, topics>>
matcherVars == <<preferences, now, db, skip, limit, query, articles, stage, earlier>>
authVars == <<token, user, authLoading, inflight, logins, route, mounted, stored,
              logout, redirect>>
homeVars == <<homeArticles, homeLoading, homeMounted, showFallback, fetches, issued,
              saving, clock, timer>>
appVars == <<authVars, homeVars>>
vars == <<argument, text, title, called, splitter, path, score, topics,
          preferences, now, db, skip, limit, query, articles, stage, earlier,
          authVars, homeVars>>

----------------------------------------------------------------------------
(* Characters and strings *)

Char(s, i) == SubSeq(s, i, i)

UpperChars == "ABCDEFGHIJKLMNOPQRSTUVWXYZ"
LowerChars == "abcdefghijklmnopqrstuvwxyz"
DigitChars == "0123456789"

CharsOf(s) == {Char(s, i) : i \in 1..Len(s)}

UpperSet == CharsOf(UpperChars)

\* the lower-case letter of each upper-case letter
LowerOf ==
    [c \in UpperSet |->
        Char(LowerChars, CHOOSE i \in 1..Len(UpperChars) : Char(UpperChars, i) = c)]

\* str.lower() on one character
lower_char(c) == IF c \in UpperSet THEN LowerOf[c] ELSE c

RECURSIVE lower(_)
\* str.lower(), character by character (the string is halved to keep the
\* evaluation shallow)
lower(s) ==
    IF Len(s) = 0 THEN ""
    ELSE IF Len(s) = 1 THEN lower_char(s)
    ELSE LET h == Len(s) \div 2
         IN  lower(SubSeq(s, 1, h)) \o lower(SubSeq(s, h + 1, Len(s)))

\* Python's  k in s  on strings: k occurs as a substring of s
Contains(s, k) ==
    \E i \in 1..(Len(s) - Len(k) + 1) : SubSeq(s, i, i + Len(k) - 1) = k

WordChars == UpperSet \cup CharsOf(LowerChars) \cup CharsOf(DigitChars) \cup {"_"}

\* the regular expression class \w
IsWordChar(c) == c \in WordChars

\* whitespace, as str.split() and \s see it
IsSpace(c) == c \in {" ", "\t", "\n"}

NotSpace(c) == ~IsSpace(c)

\* the character classes runs are made of:  \w  and  \S
InClass(class, c) == IF class = "word" THEN IsWordChar(c) ELSE NotSpace(c)

\* the elements of a finite set of integers in increasing order
Sorted(S) ==
    [k \in 1..Cardinality(S) |-> CHOOSE i \in S : Cardinality({j \in S : j < i}) = k - 1]

\* the maximal runs of characters of a class, left to right
Runs(s, class) ==
    LET in(i) == i \in 1..Len(s) /\ InClass(class, Char(s, i))
        starts == Sorted({i \in 1..Len(s) : in(i) /\ ~in(i - 1)})
        ends == Sorted({i \in 1..Len(s) : in(i) /\ ~in(i + 1)})
    IN  [k \in DOMAIN starts |-> SubSeq(s, starts[k], ends[k])]

\* re.findall(r'\w+', s)
findall_words(s) == Runs(s, "word")

\* s.split()
split(s) == Runs(s, "space")

Range(f) == {f[i] : i \in DOMAIN f}

RECURSIVE SumSeq(_)
SumSeq(q) == IF q = <<>> THEN 0 ELSE Head(q) + SumSeq(Tail(q))

----------------------------------------------------------------------------
(* Numbers: fractions in lowest terms *)

RECURSIVE GCD(_, _)
GCD(a, b) == IF b = 0 THEN a ELSE GCD(b, a % b)

\* a difference used as it is, sign included
Abs_Signed(x) == x

Abs(x) == IF x < 0 THEN -x ELSE x

\* n / d, d > 0
Frac(n, d) ==
    LET g == GCD(Abs(n), d)
    IN  [num |-> n \div g, den |-> d \div g]

Whole(n) == [num |-> n, den |-> 1]

Leq(x, y) == x.num * y.den <= y.num * x.den

\* Python's max(a, b) and min(a, b): the first argument wins a tie
max(a, b) == IF Leq(a, b) /\ ~Leq(b, a) THEN b ELSE a
min(a, b) == IF Leq(b, a) /\ ~Leq(a, b) THEN b ELSE a

----------------------------------------------------------------------------
(* Sentence splitting *)

Terminators == {".", "!", "?"}

IsBlank(s) == \A i \in 1..Len(s) : IsSpace(Char(s, i))

\* a sentence ends at a terminator that is followed by whitespace or ends the text
PunktBreak(s, i) ==
    /\ Char(s, i) \in Terminators
    /\ (i = Len(s) \/ IsSpace(Char(s, i + 1)))

SimpleBreak(s, i) == Char(s, i) \in Terminators

Cut(rule, s, i) == IF rule = "punkt" THEN PunktBreak(s, i) ELSE SimpleBreak(s, i)

\* cut s after every position i with Cut(rule, s, i); blank pieces are not kept
Pieces(s, rule) ==
    LET cuts == {i \in 1..Len(s) : Cut(rule, s, i)} \cup {Len(s)}
        ends == Sorted(cuts)
        start(k) == IF k = 1 THEN 1 ELSE ends[k - 1] + 1
        all == [k \in DOMAIN ends |-> SubSeq(s, start(k), ends[k])]
    IN  SelectSeq(all, LAMBDA p : ~IsBlank(p))

\* nltk.sent_tokenize on plain text: sentences keep their punctuation
sent_tokenize(s) == Pieces(s, "punkt")

\* a piece of simple_tokenize without its terminator
Unterminated(p) ==
    IF p # "" /\ Char(p, Len(p)) \in Terminators THEN SubSeq(p, 1, Len(p) - 1) ELSE p

\* the fallback splitter: split on '.', '!' and '?'
simple_tokenize(s) ==
    LET ps == Pieces(s, "simple")
        us == [i \in DOMAIN ps |-> Unterminated(ps[i])]
    IN  SelectSeq(us, LAMBDA p : ~IsBlank(p))

\* what the two splitters can do on a call: both work, the primary one raises,
\* or the fallback raises as well
TokenizerOutcomes == {"ok", "primary_raises", "both_raise"}

----------------------------------------------------------------------------
(* Classification algorithms *)

Returned(p, v) == [path |-> p, value |-> v]

\* an exception leaving the block it was raised in
Raised == [path |-> "raised", value |-> [num |-> 0, den |-> 1]]

\* without a handler the exception reaches the caller
try_except_Reraise(body) == body

\* try: body / except Exception: return 5
try_except(body) ==
    IF body.path = "raised" THEN Returned("caught", Whole(5)) ELSE body

\* the upper limit alone: min(10, x)
Scale_NoFloor(x) == min(Whole(10), x)

\* min(10, max(1, x))
Scale(x) == min(Whole(10), max(Whole(1), x))

\* the characters of the sentences instead of their words
TotalWords_Characters(sentences) == SumSeq([i \in DOMAIN sentences |-> Len(sentences[i])])

\* sum(len(s.split()) for s in sentences)
TotalWords(sentences) == SumSeq([i \in DOMAIN sentences |-> Len(split(sentences[i]))])

calculate_reading_level(t, outcome) ==
    IF t = "" THEN Returned("empty", Whole(5))
    ELSE IF outcome = "both_raise" THEN try_except(Raised)
    ELSE LET sentences == IF outcome = "ok" THEN sent_tokenize(t)
                          ELSE simple_tokenize(t)
             how == IF outcome = "ok" THEN "formula" ELSE "fallback"
         IN  IF sentences = <<>> THEN Returned("default", Whole(5))
             \* avg_sentence_length / 3, the average being total / len(sentences)
             ELSE Returned(how, Scale(Frac(TotalWords(sentences), Len(sentences) * 3)))

\* tokens compared as written, without case folding
calculate_information_density_CaseSensitive(t) ==
    IF t = "" THEN Returned("empty", Whole(5))
    ELSE LET words == findall_words(t)
         IN  IF words = <<>> THEN Returned("default", Whole(5))
             ELSE Returned("formula",
                           Scale(Frac(Cardinality(Range(words)) * 20, Len(words))))

calculate_information_density(t) ==
    IF t = "" THEN Returned("empty", Whole(5))
    ELSE LET words == findall_words(lower(t))
         IN  IF words = <<>> THEN Returned("default", Whole(5))
             \* unique_ratio * 20, the ratio being len(set(words)) / len(words)
             ELSE Returned("formula",
                           Scale(Frac(Cardinality(Range(words)) * 20, Len(words))))

left_bias_terms ==
    <<"progressive", "liberal", "democrat", "socialism", "green new deal",
      "universal healthcare">>

right_bias_terms ==
    <<"conservative", "republican", "trump", "tax cuts", "border wall",
      "deregulation">>

\* sum(term in s for term in terms)
CountIn(s, terms) == SumSeq([i \in DOMAIN terms |-> IF Contains(s, terms[i]) THEN 1 ELSE 0])

\* without the early return on an empty text
estimate_bias_NoEmptyCheck(t) ==
    LET low == lower(t)
        left_count == CountIn(low, left_bias_terms)
        right_count == CountIn(low, right_bias_terms)
        total == left_count + right_count
    IN  IF left_count = right_count THEN Returned("neutral", Whole(10))
        ELSE Returned("formula",
                      Scale(Frac(10 * total - 9 * Abs(left_count - right_count), total)))

\* with the middle value, not 10, for a text without any bias term
estimate_bias_NoTermsIsDefault(t) ==
    IF t = "" THEN Returned("empty", Whole(5))
    ELSE LET low == lower(t)
             left_count == CountIn(low, left_bias_terms)
             right_count == CountIn(low, right_bias_terms)
             total == left_count + right_count
         IN  IF total = 0 THEN Returned("default", Whole(5))
             ELSE IF left_count = right_count THEN Returned("neutral", Whole(10))
             ELSE Returned("formula",
                           Scale(Frac(10 * total - 9 * Abs(left_count - right_count),
                                      total)))

estimate_bias(t) ==
    IF t = "" THEN Returned("empty", Whole(5))
    ELSE LET low == lower(t)
             left_count == CountIn(low, left_bias_terms)
             right_count == CountIn(low, right_bias_terms)
             total == left_count + right_count
         IN  IF left_count = right_count THEN Returned("neutral", Whole(10))
             ELSE IF total = 0 THEN Returned("neutral", Whole(10))
             \* 10 - imbalance * 9, the imbalance being |left - right| / total
             ELSE Returned("formula",
                           Scale(Frac(10 * total - 9 * Abs(left_count - right_count),
                                      total)))

propaganda_indicators ==
    <<"must", "always", "never", "every", "all", "none", "everyone", "nobody",
      "undoubtedly", "certainly", "absolutely", "obviously", "clearly", "definitely",
      "!!", "??", "BREAKING", "EXCLUSIVE">>

\* the indicators matched without regard to letter case
estimate_propaganda_AnyCase(t) ==
    IF t = "" THEN Returned("empty", Whole(5))
    ELSE LET low == lower(t)
             folded == [i \in DOMAIN propaganda_indicators |->
                           lower(propaganda_indicators[i])]
             indicator_count == CountIn(low, folded)
             word_count == Len(findall_words(low))
         IN  IF word_count = 0 THEN Returned("default", Whole(5))
             ELSE Returned("formula",
                           Scale(Frac(10 * word_count - 100 * indicator_count,
                                      word_count)))

\* indicators per word, not per 100 words
estimate_propaganda_PerWord(t) ==
    IF t = "" THEN Returned("empty", Whole(5))
    ELSE LET low == lower(t)
             indicator_count == CountIn(low, propaganda_indicators)
             word_count == Len(findall_words(low))
         IN  IF word_count = 0 THEN Returned("default", Whole(5))
             ELSE Returned("formula",
                           Scale(Frac(10 * word_count - indicator_count, word_count)))

estimate_propaganda(t) ==
    IF t = "" THEN Returned("empty", Whole(5))
    ELSE LET low == lower(t)
             indicator_count == CountIn(low, propaganda_indicators)
             word_count == Len(findall_words(low))
         IN  IF word_count = 0 THEN Returned("default", Whole(5))
             \* indicator_count / (word_count / 100), taken from 10
             ELSE Returned("formula",
                           Scale(Frac(10 * word_count - 100 * indicator_count,
                                      word_count)))

TopicLabels ==
    <<"politics", "business", "technology", "science", "health", "sports",
      "entertainment", "world">>

topic_keywords ==
    [politics |-> <<"politics", "government", "election", "president", "congress",
                    "senate", "democracy">>,
     business |-> <<"business", "economy", "market", "stock", "finance", "company",
                    "industry">>,
     technology |-> <<"technology", "tech", "ai", "software", "hardware", "internet",
                      "app", "digital">>,
     science |-> <<"science", "research", "study", "discovery", "scientist", "physics",
                   "chemistry", "biology">>,
     health |-> <<"health", "medical", "medicine", "disease", "doctor", "patient",
                  "hospital", "wellness">>,
     sports |-> <<"sports", "game", "team", "player", "tournament", "championship",
                  "league", "score">>,
     entertainment |-> <<"entertainment", "movie", "film", "music", "celebrity", "actor",
                         "director", "tv", "television">>,
     world |-> <<"world", "international", "global", "foreign", "country", "nation",
                 "diplomatic", "crisis">>]

\* all(keyword in s for keyword in keywords)
AnyIn_All(s, keywords) == \A i \in DOMAIN keywords : Contains(s, keywords[i])

\* any(keyword in s for keyword in keywords)
AnyIn(s, keywords) == \E i \in DOMAIN keywords : Contains(s, keywords[i])

\* without the "uncategorized" label for an empty result
extract_topics_NoFallback(t, ttl) ==
    IF t = "" /\ ttl = "" THEN <<"uncategorized">>
    ELSE LET combined_text == lower(ttl \o " " \o t)
         IN  SelectSeq(TopicLabels,
                       LAMBDA topic : AnyIn(combined_text, topic_keywords[topic]))

extract_topics(t, ttl) ==
    IF t = "" /\ ttl = "" THEN <<"uncategorized">>
    ELSE LET combined_text == lower(ttl \o " " \o t)
             detected_topics ==
                 SelectSeq(TopicLabels,
                           LAMBDA topic : AnyIn(combined_text, topic_keywords[topic]))
         IN  IF detected_topics = <<>> THEN <<"uncategorized">> ELSE detected_topics

----------------------------------------------------------------------------
(* Article filtering by user preferences: the query pattern *)

\* a field of a document by its dotted path; classification is optional
HasField(doc, f) ==
    IF f \in {"is_paywalled", "published_date"} THEN f \in DOMAIN doc
    ELSE "classification" \in DOMAIN doc

FieldValue(doc, f) ==
    CASE f = "is_paywalled" -> doc.is_paywalled
      [] f = "published_date" -> doc.published_date
      [] f = "classification.topics" -> doc.classification.topics
      [] f = "classification.region" -> doc.classification.region
      [] f = "classification.length" -> doc.classification.length

\* the fields that hold an array
ArrayFields == {"classification.topics"}

\* one operator of a query condition on the value v of field f
Satisfies(f, v, op, arg) ==
    CASE op = "$eq" -> v = arg
      [] op = "$gte" -> v >= arg
      [] op = "$lte" -> v <= arg
      [] op = "$all" -> arg \subseteq v
      [] op = "$in" -> IF f \in ArrayFields THEN v \cap arg # {} ELSE v \in arg

\* the condition the query puts on field f, if any, holds of the document
MatchesField(doc, q, f) ==
    f \in DOMAIN q =>
        /\ HasField(doc, f)
        /\ \A op \in DOMAIN q[f] : Satisfies(f, FieldValue(doc, f), op, q[f][op])

\* db.articles.find(query): the document matches every condition
Matches(doc, q) == \A f \in DOMAIN q : MatchesField(doc, q, f)

NoConditions == <<>>

\* query["is_paywalled"] = false unless paywalled articles are shown
paywall_filter_Never(prefs) == NoConditions

paywall_filter(prefs) ==
    IF ~prefs.show_paywalled THEN "is_paywalled" :> ("$eq" :> FALSE) ELSE NoConditions

\* minDate a day late
age_filter_DayShort(prefs, today) ==
    IF prefs.max_age_days > 0
    THEN "published_date" :> ("$gte" :> (today - prefs.max_age_days + 1))
    ELSE NoConditions

\* published_date >= minDate, minDate being max_age_days before today
age_filter(prefs, today) ==
    IF prefs.max_age_days > 0
    THEN "published_date" :> ("$gte" :> (today - prefs.max_age_days))
    ELSE NoConditions

\* $in whatever the filter type
topic_filter_AlwaysIn(prefs) ==
    IF prefs.topics # {}
    THEN "classification.topics" :> ("$in" :> prefs.topics)
    ELSE NoConditions

\* $all under AND, $in otherwise, when topics are preferred
topic_filter(prefs) ==
    IF prefs.topics # {}
    THEN IF prefs.topics_filter_type = "AND"
         THEN "classification.topics" :> ("$all" :> prefs.topics)
         ELSE "classification.topics" :> ("$in" :> prefs.topics)
    ELSE NoConditions

region_filter_Never(prefs) == NoConditions

region_filter(prefs) ==
    IF prefs.regions # {}
    THEN "classification.region" :> ("$in" :> prefs.regions)
    ELSE NoConditions

\* max_length at or above this value is no constraint
MaxLengthSentinel == 5000

\* $lte whatever max_length is
length_filter_AlwaysUpper(prefs) ==
    LET gte == IF prefs.min_length > 0 THEN "$gte" :> prefs.min_length ELSE NoConditions
        lte == "$lte" :> prefs.max_length
    IN  "classification.length" :> (gte @@ lte)

length_filter(prefs) ==
    LET gte == IF prefs.min_length > 0 THEN "$gte" :> prefs.min_length ELSE NoConditions
        lte == IF prefs.max_length < MaxLengthSentinel
               THEN "$lte" :> prefs.max_length ELSE NoConditions
        lengthQuery == gte @@ lte
    IN  IF DOMAIN lengthQuery # {} THEN "classification.length" :> lengthQuery
        ELSE NoConditions

\* the base query of a preference record
build_query(prefs, today) ==
    paywall_filter(prefs) @@ age_filter(prefs, today) @@ topic_filter(prefs)
        @@ region_filter(prefs) @@ length_filter(prefs)

\* oldest first: .sort("published_date", 1)
SortedByDate_Ascending(S) ==
    {q \in [1..Cardinality(S) -> S] :
        /\ Range(q) = S
        /\ \A i, j \in DOMAIN q : i < j => q[i].published_date <= q[j].published_date}

\* no sort: the documents in any order
SortedByDate_Unsorted(S) ==
    {q \in [1..Cardinality(S) -> S] : Range(q) = S}

\* the orders .sort("published_date", -1) can give the documents of a set:
\* newest first, documents of the same date in any order
SortedByDate(S) ==
    {q \in [1..Cardinality(S) -> S] :
        /\ Range(q) = S
        /\ \A i, j \in DOMAIN q : i < j => q[i].published_date >= q[j].published_date}

\* a page of copies whose length is counted anew
Page_Recomputed(q, s, l) ==
    LET page == SubSeq(q, s + 1, IF s + l < Len(q) THEN s + l ELSE Len(q))
    IN  [k \in DOMAIN page |->
            IF "classification" \in DOMAIN page[k]
            THEN [page[k] EXCEPT !.classification.length = @ + 1]
            ELSE page[k]]

\* .skip(skip).limit(limit)
Page(q, s, l) == SubSeq(q, s + 1, IF s + l < Len(q) THEN s + l ELSE Len(q))

\* the arrays find(q).sort("published_date", -1).skip(s).limit(l).toArray() can
\* give on the collection d
find_page(d, q, s, l) ==
    {Page(sorted, s, l) :
        sorted \in SortedByDate({d[i] : i \in {j \in DOMAIN d : Matches(d[j], q)}})}

\* the half-width of the reading level and information density windows
Window == 2

\* with bias_score > bias_threshold, the threshold itself excluded
passes_thresholds_StrictBias(article, prefs) ==
    IF "classification" \notin DOMAIN article THEN FALSE
    ELSE LET c == article.classification
         IN  /\ Leq(Whole(prefs.reading_level - Window), c.reading_level)
             /\ Leq(c.reading_level, Whole(prefs.reading_level + Window))
             /\ Leq(Whole(prefs.information_density - Window), c.information_density)
             /\ Leq(c.information_density, Whole(prefs.information_density + Window))
             /\ ~Leq(c.bias_score, Whole(prefs.bias_threshold))
             /\ Leq(Whole(prefs.propaganda_threshold), c.propaganda_score)

\* with the ends of the reading level window excluded
passes_thresholds_OpenWindow(article, prefs) ==
    IF "classification" \notin DOMAIN article THEN FALSE
    ELSE LET c == article.classification
         IN  /\ ~Leq(c.reading_level, Whole(prefs.reading_level - Window))
             /\ ~Leq(Whole(prefs.reading_level + Window), c.reading_level)
             /\ Leq(Whole(prefs.information_density - Window), c.information_density)
             /\ Leq(c.information_density, Whole(prefs.information_density + Window))
             /\ Leq(Whole(prefs.bias_threshold), c.bias_score)
             /\ Leq(Whole(prefs.propaganda_threshold), c.propaganda_score)

\* the post-query filter for numeric thresholds
passes_thresholds(article, prefs) ==
    IF "classification" \notin DOMAIN article THEN FALSE
    ELSE LET c == article.classification
         IN  /\ Leq(Whole(prefs.reading_level - Window), c.reading_level)
             /\ Leq(c.reading_level, Whole(prefs.reading_level + Window))
             /\ Leq(Whole(prefs.information_density - Window), c.information_density)
             /\ Leq(c.information_density, Whole(prefs.information_density + Window))
             /\ Leq(Whole(prefs.bias_threshold), c.bias_score)
             /\ Leq(Whole(prefs.propaganda_threshold), c.propaganda_score)

\* the arrays the whole pattern can end with on the collection d: the base
\* query, the page, then the post-query filter
filter_articles(d, prefs, today, s, l) ==
    {SelectSeq(page, LAMBDA a : passes_thresholds(a, prefs)) :
        page \in find_page(d, build_query(prefs, today), s, l)}

----------------------------------------------------------------------------
(* Inputs of the classification functions *)

\* the longest text, counted in fragments
MaxFragments == 2

Fragments ==
    <<"The cat sat. ", "The cat sat on the mat.", "Liberal ", "progressive ",
      "Trump ", "border wall ", "must never ", "Everyone! ", "BREAKING ",
      "EXCLUSIVE!! ", "said ", "stock market ", "software ", "...", " ">>

RECURSIVE Join(_)
Join(q) == IF q = <<>> THEN "" ELSE Head(q) \o Join(Tail(q))

ShortTexts ==
    UNION {{Join([i \in 1..n |-> Fragments[f[i]]]) : f \in [1..n -> DOMAIN Fragments]}
           : n \in 0..MaxFragments}

RECURSIVE Repeat(_, _)
\* s written n times
Repeat(s, n) ==
    IF n = 0 THEN ""
    ELSE IF n % 2 = 0 THEN Repeat(s \o s, n \div 2)
    ELSE s \o Repeat(s \o s, n \div 2)

\* the length in words of the filler of a long text
FillerWords == 98

LongTexts ==
    {Repeat("w ", FillerWords) \o tail : tail \in {"must never ", "so what ", "All none"}}

Texts == ShortTexts \cup LongTexts

Titles == {"", "AI App", "Senate election"}

NoScore == Whole(0)

\* no token in localStorage
NoToken == [owner |-> "nobody", valid |-> FALSE, serial |-> 0]

NoLogout == [done |-> FALSE, logins |-> 0]

NoRedirect == [happened |-> FALSE, stored |-> NoToken]

NoTimer == [due |-> 0, articles |-> "empty", loading |-> TRUE, armed |-> FALSE]

NothingListed == [kind |-> "empty", request |-> 0]

\* the application before it is loaded
AuthIdle ==
    /\ token = NoToken
    /\ user = "null"
    /\ authLoading = TRUE
    /\ inflight = {}
    /\ logins = <<>>
    /\ route = "/"
    /\ mounted = FALSE
    /\ stored = NoToken
    /\ logout = NoLogout
    /\ redirect = NoRedirect

HomeIdle ==
    /\ homeArticles = NothingListed
    /\ homeLoading = TRUE
    /\ homeMounted = FALSE
    /\ showFallback = FALSE
    /\ fetches = {}
    /\ issued = 0
    /\ saving = FALSE
    /\ clock = 0
    /\ timer = NoTimer

AppIdle == AuthIdle /\ HomeIdle

ClassifierIdle ==
    /\ argument = "str"
    /\ title = ""
    /\ called = "none"
    /\ splitter = "none"
    /\ path = "none"
    /\ score = NoScore
    /\ topics = <<>>

\* the preference record of a new user
DefaultPreferences ==
    [reading_level |-> 5, information_density |-> 5, bias_threshold |-> 5,
     propaganda_threshold |-> 5, max_length |-> 5000, min_length |-> 0,
     topics |-> {}, regions |-> {}, show_paywalled |-> TRUE,
     topics_filter_type |-> "OR", max_age_days |-> 30]

MatcherIdle ==
    /\ preferences = DefaultPreferences
    /\ now = 0
    /\ db = <<>>
    /\ skip = 0
    /\ limit = 0
    /\ query = NoConditions
    /\ articles = <<>>
    /\ stage = "idle"
    /\ earlier = <<>>

Init ==
    /\ text \in Texts
    /\ ClassifierIdle
    /\ MatcherIdle
    /\ AppIdle

\* the kinds of value a caller can hand to a calculator: a str, None, or a
\* non-empty value of another type (bytes)
ArgumentKinds == {"str", "None", "bytes"}

\* a calculator applied to an argument of the given kind: None fails the
\* "if not text" test; on bytes the first string operation of the try block
\* raises; on a str the calculator's result r is returned
OnArgument(arg, r) ==
    IF arg = "None" THEN Returned("empty", Whole(5))
    ELSE IF arg = "str" THEN r
    ELSE try_except(Raised)

\* callers that hand over values of any kind
CallerInit ==
    /\ \/ argument = "str" /\ text \in Texts
       \/ argument \in ArgumentKinds \ {"str"} /\ text = ""
    /\ title = ""
    /\ called = "none"
    /\ splitter = "none"
    /\ path = "none"
    /\ score = NoScore
    /\ topics = <<>>
    /\ MatcherIdle
    /\ AppIdle

Return(fn, r) ==
    /\ called' = fn
    /\ path' = OnArgument(argument, r).path
    /\ score' = OnArgument(argument, r).value
    /\ UNCHANGED <<argument, text, title, topics>>
    /\ UNCHANGED matcherVars
    /\ UNCHANGED appVars

CalculateReadingLevel ==
    /\ called = "none"
    /\ \E outcome \in TokenizerOutcomes :
           /\ splitter' = outcome
           /\ Return("calculate_reading_level", calculate_reading_level(text, outcome))

CalculateInformationDensity ==
    /\ called = "none"
    /\ Return("calculate_information_density", calculate_information_density(text))
    /\ UNCHANGED splitter

EstimateBias ==
    /\ called = "none"
    /\ Return("estimate_bias", estimate_bias(text))
    /\ UNCHANGED splitter

EstimatePropaganda ==
    /\ called = "none"
    /\ Return("estimate_propaganda", estimate_propaganda(text))
    /\ UNCHANGED splitter

ExtractTopics ==
    /\ called = "none"
    /\ argument = "str"
    /\ \E ttl \in Titles :
           /\ title' = ttl
           /\ topics' = extract_topics(text, ttl)
    /\ called' = "extract_topics"
    /\ UNCHANGED <<argument, text, splitter, path, score>>
    /\ UNCHANGED matcherVars
    /\ UNCHANGED appVars

Next ==
    \/ CalculateReadingLevel
    \/ CalculateInformationDensity
    \/ EstimateBias
    \/ EstimatePropaganda
    \/ ExtractTopics

Spec == Init /\ [][Next]_vars

CallerSpec == CallerInit /\ [][Next]_vars

----------------------------------------------------------------------------
(* Inputs and steps of the query pattern *)

\* the day the query runs on
Today == 100

\* a classification record; the four scores are fractions in [1, 10]
Classification(tps, region, length, rl, dens, bias, prop) ==
    [topics |-> tps, region |-> region, length |-> length, reading_level |-> rl,
     information_density |-> dens, bias_score |-> bias, propaganda_score |-> prop]

Article(id, date, paywalled, classification) ==
    [id |-> id, published_date |-> date, is_paywalled |-> paywalled,
     classification |-> classification]

Unclassified(id, date, paywalled) ==
    [id |-> id, published_date |-> date, is_paywalled |-> paywalled]

\* the stored articles a collection is drawn from: two of the same date, one
\* exactly 30 days old, one older, one without a classification, and scores on,
\* just inside and just outside the default thresholds and windows
ArticlePool ==
    {Article("a1", Today, FALSE,
             Classification({"technology"}, "north_america", 400,
                            Whole(5), Whole(5), Whole(9), Whole(9))),
     Article("a2", Today - 1, FALSE,
             Classification({"technology", "health"}, "europe", 800,
                            Whole(7), Whole(3), Whole(5), Whole(6))),
     Article("a3", Today - 1, TRUE,
             Classification({"technology", "health", "science"}, "europe", 6000,
                            Whole(3), Whole(7), Whole(10), Whole(5))),
     Article("a4", Today - 30, FALSE,
             Classification({"health"}, "asia", 200,
                            Whole(6), Whole(5), Whole(7), Whole(8))),
     Article("a5", Today - 31, FALSE,
             Classification({"uncategorized"}, "global", 1000,
                            Whole(5), Frac(5, 2), Frac(9, 2), Whole(10))),
     Unclassified("a6", Today - 2, FALSE),
     Article("a7", Today - 3, TRUE,
             Classification({"sports"}, "asia", 300,
                            Frac(15, 2), Whole(5), Whole(8), Frac(9, 2)))}

\* the largest collection, in articles
MaxArticles == 2

\* collections: distinct articles in the order they were stored
Databases ==
    UNION {{q \in [1..n -> ArticlePool] : \A i, j \in 1..n : i # j => q[i] # q[j]}
           : n \in 0..MaxArticles}

TopicChoices == {{}, {"technology"}, {"technology", "health"}}

\* preference records: the defaults with the topic, paywall, region, length and
\* threshold settings varied
PreferencePool ==
    {[DefaultPreferences EXCEPT !.topics = t, !.topics_filter_type = m] :
        t \in TopicChoices, m \in {"AND", "OR"}}
    \cup {[DefaultPreferences EXCEPT !.show_paywalled = FALSE, !.regions = {"europe"}],
          [DefaultPreferences EXCEPT !.show_paywalled = FALSE],
          [DefaultPreferences EXCEPT !.regions = {"europe", "asia"}],
          [DefaultPreferences EXCEPT !.max_age_days = 90, !.bias_threshold = 4,
                                     !.propaganda_threshold = 4],
          [DefaultPreferences EXCEPT !.min_length = 300, !.max_length = 1000],
          [DefaultPreferences EXCEPT !.reading_level = 3, !.bias_threshold = 7,
                                     !.topics = {"technology", "health"}],
          [DefaultPreferences EXCEPT !.information_density = 7,
                                     !.propaganda_threshold = 6, !.max_age_days = 1]}

MatcherInit ==
    /\ preferences \in PreferencePool
    /\ now = Today
    /\ db \in Databases
    /\ skip \in {0, 1}
    /\ limit \in {1, 20}
    /\ query = NoConditions
    /\ articles = <<>>
    /\ stage = "start"
    /\ earlier = <<>>
    /\ text = ""
    /\ ClassifierIdle
    /\ AppIdle

\* the base query is built from the preferences
BuildQuery ==
    /\ stage = "start"
    /\ query' = build_query(preferences, now)
    /\ stage' = "built"
    /\ UNCHANGED <<preferences, now, db, skip, limit, articles, earlier>>
    /\ UNCHANGED classifierVars
    /\ UNCHANGED appVars

\* find(query).sort("published_date", -1).skip(skip).limit(limit).toArray()
ExecuteQuery ==
    /\ stage = "built"
    /\ articles' \in find_page(db, query, skip, limit)
    /\ stage' = "found"
    /\ UNCHANGED <<preferences, now, db, skip, limit, query, earlier>>
    /\ UNCHANGED classifierVars
    /\ UNCHANGED appVars

\* articles = articles.filter(...)
PostFilter ==
    /\ stage = "found"
    /\ articles' = SelectSeq(articles, LAMBDA a : passes_thresholds(a, preferences))
    /\ stage' = "done"
    /\ UNCHANGED <<preferences, now, db, skip, limit, query, earlier>>
    /\ UNCHANGED classifierVars
    /\ UNCHANGED appVars

\* the days that can pass between two invocations
MaxDaysLater == 1

\* the same request is made once more, now or some days later, with the same
\* collection and preferences
Reinvoke ==
    /\ stage = "done"
    /\ earlier = <<>>
    /\ earlier' = <<[now |-> now, articles |-> articles]>>
    /\ now' \in now..(now + MaxDaysLater)
    /\ query' = NoConditions
    /\ articles' = <<>>
    /\ stage' = "start"
    /\ UNCHANGED <<preferences, db, skip, limit>>
    /\ UNCHANGED classifierVars
    /\ UNCHANGED appVars

MatcherNext ==
    \/ BuildQuery
    \/ ExecuteQuery
    \/ PostFilter
    \/ Reinvoke

MatcherSpec == MatcherInit /\ [][MatcherNext]_vars

----------------------------------------------------------------------------
(* Properties of the classification functions *)

Calculators ==
    {"calculate_reading_level", "calculate_information_density", "estimate_bias",
     "estimate_propaganda"}

\* the score is the fraction n / d
ScoreIs(n, d) == score.num * d = score.den * n

\* the score is n / d brought into [1, 10]
ScoreIsClamped(n, d) ==
    IF n < d THEN ScoreIs(1, 1)
    ELSE IF n > 10 * d THEN ScoreIs(10, 1)
    ELSE ScoreIs(n, d)

\* the number of terms of a list that occur in the lowercased text
Hits(t, terms) ==
    LET low == lower(t)
    IN  Cardinality({i \in DOMAIN terms : Contains(low, terms[i])})

\* the word tokens of the text as written, and their number
Tokens(t) == findall_words(t)
WordCount(t) == Len(Tokens(t))

\* C1: every score a calculator returns lies in the closed interval [1, 10],
\* whatever path it returned on.
C1_ScoresInRange ==
    called \in Calculators =>
        /\ score.den > 0
        /\ score.den <= score.num
        /\ score.num <= 10 * score.den

\* C1 witness: estimate_propaganda on a two-word text with two indicators, where
\* 10 - density is far below 1 and the returned score is the lower limit.
C1_Witness ==
    /\ called = "estimate_propaganda"
    /\ path = "formula"
    /\ 10 * WordCount(text) - 100 * Hits(text, propaganda_indicators) < 0
    /\ ScoreIs(1, 1)

\* C2: on the empty string each of the four calculators returns 5.
C2_EmptyTextGivesFive ==
    (called \in Calculators /\ text = "") => (ScoreIs(5, 1) /\ path \in {"empty"})

\* C2 witness: estimate_bias was applied to the empty string and returned 5.
C2_Witness == called = "estimate_bias" /\ text = "" /\ ScoreIs(5, 1)

\* C3 as stated: whenever the left and right keyword counts of the text are equal
\* (both zero included), estimate_bias returns 10.
C3_EqualCountsGiveTen ==
    ( /\ called = "estimate_bias"
      /\ Hits(text, left_bias_terms) = Hits(text, right_bias_terms) )
    => ScoreIs(10, 1)

\* C3 amended: for every non-empty text whose left and right keyword counts are
\* equal (both zero included), estimate_bias returns 10.
C3_NonEmptyEqualCountsGiveTen ==
    ( /\ called = "estimate_bias"
      /\ text # ""
      /\ Hits(text, left_bias_terms) = Hits(text, right_bias_terms) )
    => ScoreIs(10, 1)

\* C3 witness: a text with one left and one right term scored 10.
C3_Witness ==
    /\ called = "estimate_bias"
    /\ Hits(text, left_bias_terms) = 1
    /\ Hits(text, right_bias_terms) = 1
    /\ ScoreIs(10, 1)

\* texts against which a bias score is compared with that of the swapped counts
BiasProbes ==
    {"Trump ", "Liberal ", "Trump border wall ", "Liberal progressive ",
     "Liberal Trump border wall ", "Trump Liberal progressive ",
     "deregulation, tax cuts and a border wall",
     "Socialism, universal healthcare, Green New Deal"}

SentencesScored ==
    IF splitter = "ok" THEN sent_tokenize(text) ELSE simple_tokenize(text)

\* the number of whitespace-separated words of each sentence
WordsPerSentence(sentences) == [i \in DOMAIN sentences |-> Len(split(sentences[i]))]

\* C5: for a non-empty text with at least one sentence calculate_reading_level
\* returns (total words / sentences) / 3 within [1, 10]; sentences of 3 and 6
\* words give 1.5; an empty sentence list gives 5.
C5_ReadingLevelFormula ==
    ( /\ called = "calculate_reading_level"
      /\ text # ""
      /\ splitter # "both_raise" )
    => LET sentences == SentencesScored
           words == WordsPerSentence(sentences)
       IN  /\ sentences # <<>> => ScoreIsClamped(SumSeq(words), 3 * Len(sentences))
           /\ words = <<3, 6>> => ScoreIs(3, 2)
           /\ sentences = <<>> => ScoreIs(5, 1)

\* C5 witness: "The cat sat. The cat sat on the mat." was split by the primary
\* splitter into sentences of 3 and 6 words and scored 1.5.
C5_Witness ==
    /\ called = "calculate_reading_level"
    /\ splitter = "ok"
    /\ text = "The cat sat. The cat sat on the mat."
    /\ WordsPerSentence(SentencesScored) = <<3, 6>>
    /\ ScoreIs(3, 2)

\* C6: with at least one word token calculate_information_density returns
\* 20 * (distinct case-folded tokens / tokens) within [1, 10]; with none, 5.
C6_DensityFormula ==
    called = "calculate_information_density" =>
        LET tokens == Tokens(text)
            distinct == {lower(tokens[i]) : i \in DOMAIN tokens}
        IN  IF tokens = <<>> THEN ScoreIs(5, 1)
            ELSE ScoreIsClamped(20 * Cardinality(distinct), Len(tokens))

\* C6 witness: a text with two tokens that differ only in letter case ("The",
\* "the") was scored by the formula below 10.
C6_Witness ==
    /\ called = "calculate_information_density"
    /\ path = "formula"
    /\ LET tokens == Tokens(text)
       IN  /\ Cardinality(Range(tokens)) > Cardinality({lower(tokens[i]) : i \in DOMAIN tokens})
           /\ ~ScoreIs(10, 1)

\* C7: with word_count > 0 estimate_propaganda returns
\* 10 - indicator_count / (word_count / 100) within [1, 10], indicator_count being
\* the indicators found in the lowercased text; 2 hits in 100 words give 8;
\* word_count = 0 gives 5.
C7_PropagandaFormula ==
    called = "estimate_propaganda" =>
        LET indicator_count == Hits(text, propaganda_indicators)
            word_count == WordCount(text)
        IN  /\ word_count > 0 =>
                ScoreIsClamped(10 * word_count - 100 * indicator_count, word_count)
            /\ (word_count = 100 /\ indicator_count = 2) => ScoreIs(8, 1)
            /\ word_count = 0 => ScoreIs(5, 1)

\* C7 witness: a 100-word text with two indicator hits scored 8.
C7_Witness ==
    /\ called = "estimate_propaganda"
    /\ WordCount(text) = 100
    /\ Hits(text, propaganda_indicators) = 2
    /\ ScoreIs(8, 1)

\* the lowercased "title text" combination
Combined == lower(title) \o " " \o lower(text)

\* the topics one of whose keywords occurs in the combination
Matching ==
    LET combined == Combined
    IN  {T \in Range(TopicLabels) :
            \E i \in DOMAIN topic_keywords[T] : Contains(combined, topic_keywords[T][i])}

\* C8: extract_topics never returns an empty list; it returns exactly
\* ["uncategorized"] when no keyword matches or title and text are both empty,
\* and otherwise only labels of the topic table.
C8_TopicsNeverEmpty ==
    called = "extract_topics" =>
        /\ topics # <<>>
        /\ (Matching = {} \/ (text = "" /\ title = "")) <=> (topics = <<"uncategorized">>)
        /\ topics # <<"uncategorized">> => Range(topics) \subseteq Range(TopicLabels)
        /\ "uncategorized" \in Range(topics) => Len(topics) = 1

\* C8 witness: a non-empty text without any keyword was labelled uncategorized.
C8_Witness ==
    /\ called = "extract_topics"
    /\ text # ""
    /\ Matching = {}
    /\ topics = <<"uncategorized">>

\* C9: a topic label is returned iff one of its keywords occurs in the lowercased
\* "title text" combination, each topic on its own.
C9_TopicIffKeyword ==
    called = "extract_topics" =>
        LET matching == Matching
        IN  \A T \in Range(TopicLabels) : T \in Range(topics) <=> T \in matching

\* C9 witness: a text with a business keyword and a technology keyword was
\* labelled with both.
C9_Witness ==
    /\ called = "extract_topics"
    /\ Contains(lower(text), "market")
    /\ Contains(lower(text), "software")
    /\ {"business", "technology"} \subseteq Range(topics)

----------------------------------------------------------------------------
(* Properties of the query pattern *)

\* the topics of an article; none without a classification
ArticleTopics(a) == IF "classification" \in DOMAIN a THEN a.classification.topics ELSE {}

\* the topic rule of the preferences, on sets
TopicRule(a, prefs) ==
    \/ prefs.topics = {}
    \/ prefs.topics_filter_type = "AND" /\ prefs.topics \subseteq ArticleTopics(a)
    \/ prefs.topics_filter_type = "OR" /\ prefs.topics \cap ArticleTopics(a) # {}

\* C10: the topic condition of the query passes an article iff no topic is
\* preferred, or the type is AND and the article has every preferred topic, or
\* the type is OR and it has at least one; under AND with {technology, health}
\* preferred an article labelled {technology} is never returned.
C10_TopicFilter ==
    /\ stage # "start" =>
           \A i \in DOMAIN db :
               MatchesField(db[i], query, "classification.topics")
                   <=> TopicRule(db[i], preferences)
    /\ ( /\ stage \in {"found", "done"}
         /\ preferences.topics = {"technology", "health"}
         /\ preferences.topics_filter_type = "AND" )
       => \A i \in DOMAIN articles : ArticleTopics(articles[i]) # {"technology"}

\* C10 witness: with {technology, health} preferred under OR, an article
\* labelled {technology} is in the result of the finished query.
C10_Witness ==
    /\ stage = "done"
    /\ preferences.topics = {"technology", "health"}
    /\ preferences.topics_filter_type = "OR"
    /\ \E i \in DOMAIN articles : ArticleTopics(articles[i]) = {"technology"}

\* the same article stored, and the type AND: the case C10 excludes
C10_WitnessAnd ==
    /\ stage = "done"
    /\ preferences.topics = {"technology", "health"}
    /\ preferences.topics_filter_type = "AND"
    /\ \E i \in DOMAIN db : ArticleTopics(db[i]) = {"technology"}
    /\ \E i \in DOMAIN articles : ArticleTopics(articles[i]) = {"technology", "health"}

\* the article carries a classification record
Classified(a) == "classification" \in DOMAIN a

\* the fraction v is at least the whole number t
AtLeast(v, t) == v.num >= t * v.den

\* the fraction v lies within 2 of the whole number p, the ends included
WithinTwo(v, p) == (p - 2) * v.den <= v.num /\ v.num <= (p + 2) * v.den

BiasOk(a, prefs) == AtLeast(a.classification.bias_score, prefs.bias_threshold)
PropagandaOk(a, prefs) ==
    AtLeast(a.classification.propaganda_score, prefs.propaganda_threshold)
ReadingOk(a, prefs) == WithinTwo(a.classification.reading_level, prefs.reading_level)
DensityOk(a, prefs) ==
    WithinTwo(a.classification.information_density, prefs.information_density)

\* the step that applies the post-query filter
Filtering == stage = "found" /\ stage' = "done"

\* C11: every returned article has bias_score >= bias_threshold and
\* propaganda_score >= propaganda_threshold, and the post-query filter keeps every
\* article of the page that is within both windows and at or above both
\* thresholds, however far above.
C11_ThresholdsInclusive ==
    [][ /\ stage' = "done" =>
               \A i \in DOMAIN articles' :
                   BiasOk(articles'[i], preferences) /\ PropagandaOk(articles'[i], preferences)
        /\ Filtering =>
               \A i \in DOMAIN articles :
                   ( /\ Classified(articles[i])
                     /\ ReadingOk(articles[i], preferences)
                     /\ DensityOk(articles[i], preferences)
                     /\ BiasOk(articles[i], preferences)
                     /\ PropagandaOk(articles[i], preferences) )
                   => articles[i] \in Range(articles') ]_vars

\* C11 witness: a returned article whose bias_score equals bias_threshold, next to
\* one whose propaganda_score equals propaganda_threshold.
C11_Witness ==
    /\ stage = "done"
    /\ \E i \in DOMAIN articles :
           articles[i].classification.bias_score = Whole(preferences.bias_threshold)
    /\ \E i \in DOMAIN articles :
           articles[i].classification.propaganda_score
               = Whole(preferences.propaganda_threshold)

\* C12: an article of the page that has a classification and meets both
\* thresholds is kept iff its reading_level and its information_density are each
\* within 2 of the preference, the ends included; each window decides alone when
\* the other holds.
C12_WindowsClosed ==
    [][ Filtering =>
            \A i \in DOMAIN articles :
                LET a == articles[i]
                    kept == a \in Range(articles')
                IN  ( /\ Classified(a)
                      /\ BiasOk(a, preferences)
                      /\ PropagandaOk(a, preferences) )
                    => /\ kept <=> (ReadingOk(a, preferences) /\ DensityOk(a, preferences))
                       /\ DensityOk(a, preferences) => (kept <=> ReadingOk(a, preferences))
                       /\ ReadingOk(a, preferences) => (kept <=> DensityOk(a, preferences)) ]_vars

\* C12 witness: the whole collection was on the page; an article whose
\* reading_level is exactly 2 above the preference was returned, and one that is
\* 2.5 above it, and eligible otherwise, was not.
C12_Witness ==
    /\ stage = "done"
    /\ skip = 0
    /\ limit >= Len(db)
    /\ \E i \in DOMAIN articles :
           articles[i].classification.reading_level = Whole(preferences.reading_level + 2)
    /\ \E i \in DOMAIN db :
           /\ Classified(db[i])
           /\ db[i].classification.reading_level = Frac(2 * preferences.reading_level + 5, 2)
           /\ DensityOk(db[i], preferences)
           /\ BiasOk(db[i], preferences)
           /\ PropagandaOk(db[i], preferences)
           /\ Matches(db[i], query)
           /\ db[i] \notin Range(articles)

\* newest first
NewestFirst(q) ==
    \A i, j \in DOMAIN q : i < j => q[i].published_date >= q[j].published_date

NoRepeats(q) == \A i, j \in DOMAIN q : i # j => q[i] # q[j]

\* where the article a stands in the list q
PositionIn(q, a) == CHOOSE k \in DOMAIN q : q[k] = a

\* x is y with some elements left out
IsSubsequence(x, y) ==
    /\ Range(x) \subseteq Range(y)
    /\ NoRepeats(x)
    /\ \A i, j \in DOMAIN x : i < j => PositionIn(y, x[i]) < PositionIn(y, x[j])

\* C13 as stated, for a candidate list that is stored newest first: the output is
\* a subsequence of the candidates, any two returned articles in the order they
\* have among the candidates.
C13_OutputIsSubsequence ==
    (stage = "done" /\ NewestFirst(db)) => IsSubsequence(articles, db)

\* C13 amended: the output holds candidates only, none twice, newest first; for
\* candidates stored newest first any two returned articles of different
\* published_date are in the order they have among the candidates (two of the
\* same date can come in either order).
C13_OutputOrder ==
    stage = "done" =>
        /\ Range(articles) \subseteq Range(db)
        /\ NoRepeats(articles)
        /\ NewestFirst(articles)
        /\ NewestFirst(db) =>
               \A i, j \in DOMAIN articles :
                   (i < j /\ articles[i].published_date # articles[j].published_date)
                   => PositionIn(db, articles[i]) < PositionIn(db, articles[j])

\* C13 witness: two candidates stored newest first, of different dates, were both
\* returned.
C13_Witness ==
    /\ stage = "done"
    /\ NewestFirst(db)
    /\ Len(articles) = 2
    /\ articles[1].published_date > articles[2].published_date

\* the list q without its i-th element
Without(q, i) == SubSeq(q, 1, i - 1) \o SubSeq(q, i + 1, Len(q))

\* C14, the part the pattern keeps: an article without a classification is never
\* returned, whatever the preferences.
C14_UnclassifiedExcluded ==
    stage = "done" => \A i \in DOMAIN articles : Classified(articles[i])

\* C14 as stated: an article without a classification is never returned, and the
\* result is one the pattern can give on the collection without that article.
C14_UnclassifiedChangesNothing ==
    stage = "done" =>
        /\ \A i \in DOMAIN articles : Classified(articles[i])
        /\ \A i \in DOMAIN db :
               ~Classified(db[i]) =>
                   articles \in filter_articles(Without(db, i), preferences, now, skip, limit)

\* the list q with the article a replaced by b
Replace(q, a, b) == [k \in DOMAIN q |-> IF q[k] = a THEN b ELSE q[k]]

\* the preference record with one field set to v
With(prefs, field, v) == [prefs EXCEPT ![field] = v]

\* a candidate no condition but the one on the given preference field keeps out
\* of the result: it meets the query built without that preference and passes
\* the thresholds
OtherwiseEligible(a, field, open) ==
    /\ Matches(a, build_query(With(preferences, field, open), now))
    /\ passes_thresholds(a, preferences)

\* C15: with show_paywalled false no paywalled article is returned; with
\* show_paywalled true the result for a collection in which one article's
\* is_paywalled is flipped is the same result with that article flipped.
C15_Paywall ==
    stage = "done" =>
        /\ ~preferences.show_paywalled =>
               \A k \in DOMAIN articles : ~articles[k].is_paywalled
        /\ preferences.show_paywalled =>
               \A i \in DOMAIN db :
                   LET a == db[i]
                       b == [a EXCEPT !.is_paywalled = ~@]
                   IN  Replace(articles, a, b)
                           \in filter_articles(Replace(db, a, b), preferences, now, skip, limit)

\* C15 witness: show_paywalled is false, something was returned, and a paywalled
\* candidate that every other condition admits was left out.
C15_Witness ==
    /\ stage = "done"
    /\ ~preferences.show_paywalled
    /\ articles # <<>>
    /\ \E i \in DOMAIN db :
           /\ db[i].is_paywalled
           /\ OtherwiseEligible(db[i], "show_paywalled", TRUE)
           /\ db[i] \notin Range(articles)

\* the region labels
Regions == {"north_america", "europe", "asia", "global"}

\* C17: with regions non-empty every returned article's region is one of them;
\* with regions empty the result for a collection in which one classified
\* article's region is another label is the same result with that article so
\* changed.
C17_Region ==
    stage = "done" =>
        /\ preferences.regions # {} =>
               \A k \in DOMAIN articles :
                   articles[k].classification.region \in preferences.regions
        /\ preferences.regions = {} =>
               \A i \in DOMAIN db : \A r \in Regions :
                   Classified(db[i]) =>
                       LET a == db[i]
                           b == [a EXCEPT !.classification.region = r]
                       IN  Replace(articles, a, b)
                               \in filter_articles(Replace(db, a, b), preferences, now, skip, limit)

\* C17 witness: regions are preferred, an article of one of them was returned,
\* and a candidate of another region that every other condition admits was left
\* out.
C17_Witness ==
    /\ stage = "done"
    /\ preferences.regions # {}
    /\ articles # <<>>
    /\ \E i \in DOMAIN db :
           /\ Classified(db[i])
           /\ db[i].classification.region \notin preferences.regions
           /\ OtherwiseEligible(db[i], "regions", {})
           /\ db[i] \notin Range(articles)

\* the page requested holds every document the query finds
WholePage == skip = 0 /\ Len(db) <= limit

\* the validated range of max_age_days
MaxAgeDays == 90

\* C16: with max_age_days in 1..90 no returned article was published before
\* now - max_age_days, and a candidate published exactly max_age_days ago that
\* every other condition admits is returned (when the page holds all that is
\* found).
C16_Recency ==
    (stage = "done" /\ preferences.max_age_days \in 1..MaxAgeDays) =>
        /\ \A k \in DOMAIN articles :
               articles[k].published_date >= now - preferences.max_age_days
        /\ WholePage =>
               \A i \in DOMAIN db :
                   ( /\ db[i].published_date = now - preferences.max_age_days
                     /\ OtherwiseEligible(db[i], "max_age_days", 0) )
                   => db[i] \in Range(articles)

\* C16 witness: an article published exactly max_age_days ago was returned while
\* an older candidate, admitted by every other condition, was left out.
C16_Witness ==
    /\ stage = "done"
    /\ preferences.max_age_days \in 1..MaxAgeDays
    /\ \E k \in DOMAIN articles :
           articles[k].published_date = now - preferences.max_age_days
    /\ \E i \in DOMAIN db :
           /\ db[i].published_date < now - preferences.max_age_days
           /\ OtherwiseEligible(db[i], "max_age_days", 0)
           /\ db[i] \notin Range(articles)

\* the conditions of the query that are not on the length
NotOnLength ==
    paywall_filter(preferences) @@ age_filter(preferences, now)
        @@ topic_filter(preferences) @@ region_filter(preferences)

\* C18: a returned article has length >= min_length when min_length > 0 and
\* length <= max_length when max_length < 5000; with max_length at 5000 or above
\* a longer candidate that every other condition admits is returned (when the
\* page holds all that is found).
C18_Length ==
    stage = "done" =>
        /\ \A k \in DOMAIN articles :
               LET len == articles[k].classification.length
               IN  /\ preferences.min_length > 0 => len >= preferences.min_length
                   /\ preferences.max_length < MaxLengthSentinel =>
                          len <= preferences.max_length
        /\ (WholePage /\ preferences.max_length >= MaxLengthSentinel) =>
               \A i \in DOMAIN db :
                   ( /\ Classified(db[i])
                     /\ db[i].classification.length > preferences.max_length
                     /\ db[i].classification.length >= preferences.min_length
                     /\ Matches(db[i], NotOnLength)
                     /\ passes_thresholds(db[i], preferences) )
                   => db[i] \in Range(articles)

\* C18 witness: max_length is at the sentinel and an article longer than
\* max_length was returned.
C18_Witness ==
    /\ stage = "done"
    /\ preferences.max_length >= MaxLengthSentinel
    /\ \E k \in DOMAIN articles :
           articles[k].classification.length > preferences.max_length

\* bounds set below the sentinel kept a shorter and a longer candidate out
C18_WitnessBounded ==
    /\ stage = "done"
    /\ preferences.min_length > 0
    /\ preferences.max_length < MaxLengthSentinel
    /\ articles # <<>>
    /\ \E i \in DOMAIN db :
           /\ Classified(db[i])
           /\ db[i].classification.length < preferences.min_length
           /\ passes_thresholds(db[i], preferences)

\* no two candidates of the same published_date
DistinctDates(q) ==
    \A i, j \in DOMAIN q : i # j => q[i].published_date # q[j].published_date

\* a second invocation, with the same candidates and preferences, has returned
Repeated == stage = "done" /\ earlier # <<>>

\* C19 as stated: a second invocation with the same candidates and the same
\* preferences returns the list the first returned, whenever it is made.
C19_SameListWhenever ==
    Repeated => articles = earlier[1].articles

\* C19 amended: a second invocation with the same candidates and the same
\* preferences, made on the same date, returns the list the first returned when
\* no two candidates have the same published_date.
C19_SameListSameDate ==
    (Repeated /\ now = earlier[1].now /\ DistinctDates(db)) =>
        articles = earlier[1].articles

\* C19 witness: two invocations on the same date on two candidates of different
\* dates, both returned twice.
C19_Witness ==
    /\ Repeated
    /\ now = earlier[1].now
    /\ DistinctDates(db)
    /\ Len(db) = 2
    /\ Len(articles) = 2
    /\ Len(earlier[1].articles) = 2

\* C20: no step of the pattern changes a candidate article, its classification
\* or the preference record, and the articles held after each step are records
\* of the candidate collection.
C20_InputsUnchanged ==
    [][ /\ db' = db
        /\ preferences' = preferences
        /\ Range(articles') \subseteq Range(db') ]_vars

\* C20 witness: the pattern has returned some of the candidates and left out
\* others.
C20_Witness ==
    /\ stage = "done"
    /\ articles # <<>>
    /\ Len(articles) < Len(db)

\* an exception was raised inside the try block of the call
FailedInside ==
    \/ argument = "bytes"
    \/ /\ argument = "str"
       /\ called = "calculate_reading_level"
       /\ text # ""
       /\ splitter = "both_raise"

\* C21: no calculator raises to its caller; a failure inside it ends in the
\* value 5; when only the primary splitter of calculate_reading_level fails, the
\* sentences of the fallback splitter are scored by the formula
\* (total words / sentences) / 3 within [1, 10], or 5 when there are none.
C21_FailuresAbsorbed ==
    called \in Calculators =>
        /\ path # "raised"
        /\ FailedInside => (path = "caught" /\ ScoreIs(5, 1))
        /\ ( /\ called = "calculate_reading_level"
             /\ argument = "str"
             /\ text # ""
             /\ splitter = "primary_raises" )
           => LET sentences == simple_tokenize(text)
                  words == WordsPerSentence(sentences)
              IN  IF sentences = <<>> THEN ScoreIs(5, 1)
                  ELSE /\ path = "fallback"
                       /\ ScoreIsClamped(SumSeq(words), 3 * Len(sentences))

\* C21 witness: the primary splitter failed and the fallback splitter's two or
\* more sentences were scored.
C21_Witness ==
    /\ called = "calculate_reading_level"
    /\ argument = "str"
    /\ splitter = "primary_raises"
    /\ path = "fallback"
    /\ Len(simple_tokenize(text)) >= 2

\* a failure inside another calculator ended in 5
C21_WitnessCaught ==
    /\ called = "estimate_bias"
    /\ argument = "bytes"
    /\ path = "caught"
    /\ ScoreIs(5, 1)

\* the candidates that meet the query and pass the post-query filter
Survivors ==
    {a \in Range(db) :
        Matches(a, build_query(preferences, now)) /\ passes_thresholds(a, preferences)}

\* C22 as stated: the page returned is the slice [skip, skip + limit) of the
\* list, newest first, of the candidates that survive the query conditions and
\* the post-query filter.
C22_PageOfFilteredList ==
    stage = "done" =>
        \E sorted \in SortedByDate(Survivors) : articles = Page(sorted, skip, limit)

\* a page shorter than limit although more surviving candidates remain
ShortPage ==
    /\ stage = "done"
    /\ Len(articles) < limit
    /\ Cardinality(Survivors) - skip > Len(articles)

----------------------------------------------------------------------------
(* The React application: AuthProvider, Login, Navbar and the protected pages *)

\* the accounts
Usernames == {"alice", "bob"}

\* what localStorage can hold when the page is loaded: nothing, a token the
\* server accepts, or one it rejects
StoredTokens ==
    {NoToken,
     [owner |-> "alice", valid |-> TRUE, serial |-> 1],
     [owner |-> "alice", valid |-> FALSE, serial |-> 1]}

\* the routes of App
Pages == {"/", "/login", "/preferences", "/admin", "/feeds"}

\* the pages whose mount effect navigates to /login when user is null
Protected == {"/preferences", "/admin", "/feeds"}

\* the calls of login in a run
MaxLogins == 2

\* the access_token the server issues to the k-th login
IssuedToken(k) == [owner |-> logins[k].username, valid |-> TRUE, serial |-> k + 1]

\* POST /token of the k-th login
TokenRequest(k) == [kind |-> "token", origin |-> k, token |-> NoToken]

\* GET /users/me with a token; origin 0 is the mount effect
MeRequest(k, tok) == [kind |-> "me", origin |-> k, token |-> tok]

\* a call of login that has not resolved
PendingLogin(u) ==
    [username |-> u, state |-> "token", success |-> FALSE, failed |-> "none",
     received |-> NoToken, userThen |-> "null", tokenThen |-> NoToken]

\* the state left by a fetchUserData that leaves loading as it is on a failure
fetchUserData_NoFinally(ok, tok) ==
    [user |-> IF ok THEN tok.owner ELSE user,
     token |-> IF ok THEN token ELSE NoToken,
     loading |-> IF ok THEN FALSE ELSE authLoading]

\* the state left by fetchUserData(tok) once its request is answered:
\* setUser(response.data), or removeItem('token') on an error; finally
\* setLoading(false)
fetchUserData(ok, tok) ==
    [user |-> IF ok THEN tok.owner ELSE user,
     token |-> IF ok THEN token ELSE NoToken,
     loading |-> FALSE]

AuthInit ==
    /\ stored \in StoredTokens
    /\ token = stored
    /\ route \in Pages
    /\ user = "null"
    /\ authLoading = TRUE
    /\ inflight = {}
    /\ logins = <<>>
    /\ mounted = FALSE
    /\ logout = NoLogout
    /\ redirect = NoRedirect
    /\ HomeIdle
    /\ text = ""
    /\ ClassifierIdle
    /\ MatcherIdle

AuthFrame ==
    /\ UNCHANGED homeVars
    /\ UNCHANGED classifierVars
    /\ UNCHANGED matcherVars

\* the effects of the first commit: the page's effect, then AuthProvider's
Mount ==
    /\ ~mounted
    /\ mounted' = TRUE
    /\ IF route \in Protected /\ user = "null"
       THEN /\ route' = "/login"
            /\ redirect' = [happened |-> TRUE, stored |-> token]
       ELSE UNCHANGED <<route, redirect>>
    /\ IF token # NoToken
       THEN /\ inflight' = inflight \cup {MeRequest(0, token)}
            /\ UNCHANGED authLoading
       ELSE /\ authLoading' = FALSE
            /\ UNCHANGED inflight
    /\ UNCHANGED <<token, user, logins, stored, logout>>
    /\ AuthFrame

\* the links Navbar shows: Home always, Login for a guest, the protected pages
\* for a user
Linked(p) ==
    \/ p = "/"
    \/ p = "/login" /\ user = "null"
    \/ p \in {"/preferences", "/admin"} /\ user # "null"

\* a click on a link of Navbar
Navigate ==
    /\ mounted
    /\ \E p \in Pages :
           /\ Linked(p)
           /\ p # route
           /\ route' = p
    /\ UNCHANGED <<token, user, authLoading, inflight, logins, mounted, stored,
                   logout, redirect>>
    /\ AuthFrame

\* Login.handleSubmit up to the await: login(username, password) posts to /token
Login ==
    /\ mounted
    /\ route = "/login"
    /\ Len(logins) < MaxLogins
    /\ \E u \in Usernames :
           /\ logins' = Append(logins, PendingLogin(u))
           /\ inflight' = inflight \cup {TokenRequest(Len(logins) + 1)}
    /\ UNCHANGED <<token, user, authLoading, route, mounted, stored, logout, redirect>>
    /\ AuthFrame

\* the answer to POST /token: an access_token, a body without one, or an error
TokenOutcomes == {"ok", "no_token", "error"}

TokenResponse ==
    \E r \in inflight : \E outcome \in TokenOutcomes :
        /\ r.kind = "token"
        /\ LET k == r.origin
           IN  IF outcome = "ok"
               THEN /\ token' = IssuedToken(k)
                    /\ inflight' = (inflight \ {r}) \cup {MeRequest(k, IssuedToken(k))}
                    /\ logins' = [logins EXCEPT ![k].state = "me",
                                                ![k].received = IssuedToken(k)]
               ELSE /\ inflight' = inflight \ {r}
                    /\ logins' = [logins EXCEPT ![k].state = "resolved",
                                                ![k].success = FALSE,
                                                ![k].failed = "token",
                                                ![k].userThen = user,
                                                ![k].tokenThen = token]
                    /\ UNCHANGED token
        /\ UNCHANGED <<user, authLoading, route, mounted, stored, logout, redirect>>
        /\ AuthFrame

\* the answer to GET /users/me: fetchUserData runs to its end; within login the
\* call then returns { success: true } and handleSubmit navigates to "/"
MeResponse ==
    \E r \in inflight : \E ok \in BOOLEAN :
        /\ r.kind = "me"
        /\ ok => r.token.valid
        /\ LET after == fetchUserData(ok, r.token)
               k == r.origin
           IN  /\ user' = after.user
               /\ token' = after.token
               /\ authLoading' = after.loading
               /\ inflight' = inflight \ {r}
               /\ IF k = 0 THEN UNCHANGED <<logins, route>>
                  ELSE /\ logins' = [logins EXCEPT ![k].state = "resolved",
                                                   ![k].success = TRUE,
                                                   ![k].failed = IF ok THEN "none" ELSE "me",
                                                   ![k].userThen = after.user,
                                                   ![k].tokenThen = after.token]
                       /\ route' = "/"
               /\ logout' = IF ok /\ k > logout.logins THEN NoLogout ELSE logout
        /\ UNCHANGED <<mounted, stored, redirect>>
        /\ AuthFrame

\* Navbar.handleLogout: logout(), then navigate("/")
Logout ==
    /\ mounted
    /\ user # "null"
    /\ token' = NoToken
    /\ user' = "null"
    /\ route' = "/"
    /\ logout' = [done |-> TRUE, logins |-> Len(logins)]
    /\ UNCHANGED <<authLoading, inflight, logins, mounted, stored, redirect>>
    /\ AuthFrame

AuthNext ==
    \/ Mount
    \/ Navigate
    \/ Login
    \/ TokenResponse
    \/ MeResponse
    \/ Logout

AuthSpec == AuthInit /\ [][AuthNext]_vars

----------------------------------------------------------------------------
(* Properties of AuthProvider and the protected pages *)

\* C24 as stated: whenever user is non-null a token is in localStorage, and
\* after a logout user is null until a login made after it has loaded its user.
C24_UserHasToken ==
    /\ user # "null" => token # NoToken
    /\ logout.done => user = "null"

\* user is set while localStorage holds no token, no logout having been made
UserWithoutToken ==
    /\ user # "null"
    /\ token = NoToken
    /\ ~logout.done

\* the logins that have resolved
Resolved == {k \in DOMAIN logins : logins[k].state = "resolved"}

\* C25 as stated: a login resolves with success: true only with its user loaded
\* and its token still stored; when its token request or its /users/me request
\* failed it resolves with success: false and no token is stored.
C25_LoginResult ==
    \A k \in Resolved :
        LET l == logins[k]
        IN  /\ l.success =>
                /\ l.userThen = l.username
                /\ l.received # NoToken
                /\ l.tokenThen = l.received
            /\ l.failed # "none" =>
                /\ ~l.success
                /\ l.tokenThen = NoToken

\* a login whose /users/me request failed resolved with success: true
SuccessWithoutUser ==
    \E k \in Resolved :
        /\ logins[k].failed = "me"
        /\ logins[k].success
        /\ logins[k].userThen = "null"

\* C29 as stated: a protected page does not navigate to /login while
\* localStorage holds a valid token.
C29_NoRedirectWithValidToken ==
    redirect.happened => ~redirect.stored.valid

\* validation of the stored token by the mount effect is under way
Validating == MeRequest(0, stored) \in inflight

\* C30: loading is true until the mount effect has run; once it has run and the
\* /users/me request it made (if any) is answered, loading is false and stays
\* false; a failed validation removes the stored token and does not set user
\* (which is null unless a login was made meanwhile).
C30_LoadingEnds ==
    [][ /\ ~mounted => authLoading
        /\ (mounted' /\ ~Validating') => ~authLoading'
        /\ ~authLoading => ~authLoading'
        /\ (Validating /\ ~Validating' /\ ~stored.valid) =>
               /\ token' = NoToken
               /\ user' = user
               /\ logins = <<>> => user' = "null" ]_vars

\* C30 witness: the stored token was rejected, loading is false, the token is
\* gone and user is null, no login having been made.
C30_Witness ==
    /\ mounted
    /\ stored # NoToken
    /\ ~Validating
    /\ ~authLoading
    /\ token = NoToken
    /\ user = "null"
    /\ logins = <<>>

\* without a stored token loading is false as soon as the mount effect has run
C30_WitnessNoToken ==
    /\ mounted
    /\ stored = NoToken
    /\ ~authLoading
    /\ inflight = {}
    /\ logins = <<>>

----------------------------------------------------------------------------
(* The React application: HomeWithFallback and Home *)

\* the article requests Home issues in a run
MaxFetches == 3

\* the seconds a run lasts
MaxSeconds == 9

\* setTimeout(..., 8000) of HomeWithFallback and setTimeout(..., 5000) of Home
FallbackDelay == 8
HomeTimerDelay == 5

\* what Home lists: nothing, the sample articles, or the articles of a response;
\* request is the request whose answer put it there
Listed(kind, n) == [kind |-> kind, request |-> n]

\* the answers to an article request: articles, an empty list, an error
ArticleOutcomes == {"data", "empty", "error"}

\* setArticles(response.data) whatever the response holds; an error lists nothing new
listed_NoFallback(outcome, n) ==
    IF outcome = "data" THEN Listed("data", n)
    ELSE IF outcome = "empty" THEN Listed("empty", n)
    ELSE homeArticles

\* what fetchArticles lists once request n is answered: the articles of a
\* non-empty response, createFallbackArticles() otherwise
listed(outcome, n) ==
    IF outcome = "data" THEN Listed("data", n) ELSE Listed("fallback", n)

HomeInit ==
    /\ user \in {"null", "alice"}
    /\ token = NoToken
    /\ authLoading = TRUE
    /\ inflight = {}
    /\ logins = <<>>
    /\ route = "/"
    /\ mounted = FALSE
    /\ stored = NoToken
    /\ logout = NoLogout
    /\ redirect = NoRedirect
    /\ homeArticles = NothingListed
    /\ homeLoading = TRUE
    /\ homeMounted = FALSE
    /\ showFallback = FALSE
    /\ fetches = {}
    /\ issued = 0
    /\ saving = FALSE
    /\ clock = 0
    /\ timer = NoTimer
    /\ text = ""
    /\ ClassifierIdle
    /\ MatcherIdle

HomeFrame ==
    /\ UNCHANGED <<token, authLoading, inflight, logins, route, mounted, stored,
                   logout, redirect>>
    /\ UNCHANGED classifierVars
    /\ UNCHANGED matcherVars

\* fetchArticles up to its await: setLoading(true), setArticles([]), the request
fetchArticles ==
    /\ homeLoading' = TRUE
    /\ homeArticles' = Listed("empty", issued + 1)
    /\ issued' = issued + 1
    /\ fetches' = fetches \cup {issued + 1}

\* the second effect of Home: a timer that holds the articles and loading of the
\* render it was set in
SetTimer == [due |-> clock + HomeTimerDelay, articles |-> homeArticles.kind,
             loading |-> homeLoading, armed |-> TRUE]

\* HomeWithFallback is mounted and renders Home: the effects of Home, then the
\* 8-second timer of HomeWithFallback
MountHome ==
    /\ ~homeMounted
    /\ ~showFallback
    /\ homeMounted' = TRUE
    /\ fetchArticles
    /\ timer' = SetTimer
    /\ UNCHANGED <<user, showFallback, saving, clock>>
    /\ HomeFrame

\* AuthProvider's user changes: both effects of Home run again
UserChanges ==
    /\ homeMounted
    /\ issued < MaxFetches
    /\ user' = IF user = "null" THEN "alice" ELSE "null"
    /\ fetchArticles
    /\ timer' = SetTimer
    /\ UNCHANGED <<homeMounted, showFallback, saving, clock>>
    /\ HomeFrame

\* a click on Apply Filters (disabled while loading): a guest's request is made
\* at once, a user's after savePreferences
ApplyFilters ==
    /\ homeMounted
    /\ ~homeLoading
    /\ ~saving
    /\ issued < MaxFetches
    /\ IF user # "null"
       THEN /\ saving' = TRUE
            /\ UNCHANGED <<homeLoading, homeArticles, issued, fetches>>
       ELSE /\ fetchArticles
            /\ UNCHANGED saving
    /\ UNCHANGED <<user, homeMounted, showFallback, clock, timer>>
    /\ HomeFrame

\* savePreferences has settled: applyFilters goes on to fetchArticles
PreferencesSaved ==
    /\ saving
    /\ saving' = FALSE
    /\ IF homeMounted
       THEN fetchArticles
       ELSE /\ issued' = issued + 1
            /\ fetches' = fetches \cup {issued + 1}
            /\ UNCHANGED <<homeLoading, homeArticles>>
    /\ UNCHANGED <<user, homeMounted, showFallback, clock, timer>>
    /\ HomeFrame

\* an article request is answered: fetchArticles runs to its end
ArticlesResponse ==
    \E n \in fetches : \E outcome \in ArticleOutcomes :
        /\ fetches' = fetches \ {n}
        /\ IF homeMounted
           THEN /\ homeArticles' = listed(outcome, n)
                /\ homeLoading' = FALSE
           ELSE UNCHANGED <<homeArticles, homeLoading>>
        /\ UNCHANGED <<user, homeMounted, showFallback, issued, saving, clock, timer>>
        /\ HomeFrame

\* the 5-second timer of Home fires
HomeTimerFires ==
    /\ homeMounted
    /\ timer.armed
    /\ clock = timer.due
    /\ timer' = [timer EXCEPT !.armed = FALSE]
    /\ IF timer.articles = "empty" /\ ~timer.loading
       THEN homeArticles' = Listed("fallback", homeArticles.request)
       ELSE UNCHANGED homeArticles
    /\ UNCHANGED <<user, homeLoading, homeMounted, showFallback, fetches, issued,
                   saving, clock>>
    /\ HomeFrame

\* the 8-second timer of HomeWithFallback fires: the fallback view is rendered
\* in place of Home, which is unmounted
FallbackTimerFires ==
    /\ homeMounted
    /\ clock = FallbackDelay
    /\ showFallback' = TRUE
    /\ homeMounted' = FALSE
    /\ timer' = [timer EXCEPT !.armed = FALSE]
    /\ UNCHANGED <<user, homeArticles, homeLoading, fetches, issued, saving, clock>>
    /\ HomeFrame

\* a second passes; a timer that is due fires first
Tick ==
    /\ homeMounted \/ showFallback
    /\ clock < MaxSeconds
    /\ ~(homeMounted /\ timer.armed /\ clock = timer.due)
    /\ ~(homeMounted /\ clock = FallbackDelay)
    /\ clock' = clock + 1
    /\ UNCHANGED <<user, homeArticles, homeLoading, homeMounted, showFallback, fetches,
                   issued, saving, timer>>
    /\ HomeFrame

HomeNext ==
    \/ MountHome
    \/ UserChanges
    \/ ApplyFilters
    \/ PreferencesSaved
    \/ ArticlesResponse
    \/ HomeTimerFires
    \/ FallbackTimerFires
    \/ Tick

HomeSpec == HomeInit /\ [][HomeNext]_vars

----------------------------------------------------------------------------
(* Properties of HomeWithFallback and Home *)

\* C23 as stated: the fallback view is shown only if Home had not loaded its
\* articles when the 8-second timer fired (Home keeps the state it was
\* unmounted in).
C23_FallbackOnlyIfNotLoaded ==
    showFallback => homeLoading

\* the fallback view replaced a Home that was listing the articles of a response
ReplacedLoadedHome ==
    /\ showFallback
    /\ ~homeLoading
    /\ homeArticles.kind = "data"
    /\ clock = FallbackDelay

\* every request Home made is answered and none is about to be made
Settled == homeMounted /\ issued > 0 /\ fetches = {} /\ ~saving

\* C26 as stated: once all requests have settled, what Home lists comes from the
\* request issued last.
C26_LatestRequestWins ==
    Settled => homeArticles.request = issued

\* the answer to an earlier request replaced that of a later one
StaleResult ==
    /\ Settled
    /\ homeArticles.request < issued

----------------------------------------------------------------------------
(* The upper-case propaganda indicators *)

\* the indicators written in upper case, and the others
UpperCaseIndicators == SelectSeq(propaganda_indicators, LAMBDA w : w # lower(w))
LowerCaseIndicators == SelectSeq(propaganda_indicators, LAMBDA w : w = lower(w))

\* C28: "BREAKING" and "EXCLUSIVE" are never counted by estimate_propaganda:
\* indicator_count is the number of the 16 other indicators found, and the score
\* is 10 - indicator_count / (word_count / 100) with that count, so a text with
\* one of the two words scores like the same text with another word in its place.
C28_UpperCaseIndicatorsNeverCount ==
    called = "estimate_propaganda" =>
        LET found == Hits(text, LowerCaseIndicators)
            word_count == WordCount(text)
        IN  /\ UpperCaseIndicators = <<"BREAKING", "EXCLUSIVE">>
            /\ Hits(text, UpperCaseIndicators) = 0
            /\ Hits(text, propaganda_indicators) = found
            /\ found <= 16
            /\ word_count > 0 =>
                   ScoreIsClamped(10 * word_count - 100 * found, word_count)
            /\ text = "BREAKING said " =>
                   score = estimate_propaganda("software said ").value

\* C28 witness: a two-word text with "BREAKING" and no other indicator scored
\* 10, no indicator being counted.
C28_Witness ==
    /\ called = "estimate_propaganda"
    /\ text = "BREAKING said "
    /\ path = "formula"
    /\ Hits(text, LowerCaseIndicators) = 0
    /\ ScoreIs(10, 1)

====
